---- MODULE Spec2Model ----
(***************************************************************************)
(* Model of sentiment_app_no_live.py: the tweet cleaning function          *)
(* (clean_tweet), the labelling rule of apply_sentiment_analysis, the      *)
(* dataset pipeline (load_and_process_data) and the counting step of       *)
(* visualize_distribution.                                                 *)
(*                                                                         *)
(* Texts are sequences of one-character strings.  Compound scores are      *)
(* integers in units of 1/10000 (VADER rounds the compound score to four   *)
(* decimals), so 0.05 is 500.                                              *)
(***************************************************************************)
EXTENDS Integers, Sequences, FiniteSets, TLC

VARIABLES
    pc,             \* which operation has run: "idle" or "done"
    text_in,        \* clean_tweet: one element of the input Series (a text or NaN)
    text_out,       \* clean_tweet: the cleaned element
    compound,       \* labelling rule: the sent_compound value
    label,          \* labelling rule: the sentiment_label value
    uploaded_file,  \* load_and_process_data: the uploaded CSV
    result,         \* load_and_process_data: the value returned
    st_errors,      \* load_and_process_data: messages passed to st.error
    raised,         \* load_and_process_data: the exception that reaches the caller
    calls,          \* load_and_process_data: the per-row stages entered
    scores,         \* apply_sentiment_analysis: the list of score dictionaries
    agg_data,       \* visualize_distribution: the DataFrame argument
    agg_column,     \* visualize_distribution: the column argument
    agg_top_n,      \* visualize_distribution: the top_n argument
    agg_counts,     \* visualize_distribution: counts, the (value, count) pairs
    agg_shown       \* visualize_distribution: what the axes show, or the error raised

vars == <<pc, text_in, text_out, compound, label, uploaded_file, result,
          st_errors, raised, calls, scores, agg_data, agg_column, agg_top_n,
          agg_counts, agg_shown>>

\* A missing cell (pandas NaN).  Cells are texts, so the marker is a text too,
\* one that no sequence of single characters equals.
NaN == <<"NaN">>

-----------------------------------------------------------------------------
(* Character classes of Python's re for the characters used here.          *)

LowerSeq == <<"a","b","c","d","e","f","g","h","i","j","k","l","m",
              "n","o","p","q","r","s","t","u","v","w","x","y","z">>
UpperSeq == <<"A","B","C","D","E","F","G","H","I","J","K","L","M",
              "N","O","P","Q","R","S","T","U","V","W","X","Y","Z">>

Range(f) == {f[i] : i \in DOMAIN f}

LowerCase == Range(LowerSeq)
UpperCase == Range(UpperSeq)
Letters == LowerCase \cup UpperCase
Digits == {"0","1","2","3","4","5","6","7","8","9"}
\* \s
Whitespace == {" ", "\n", "\t"}
\* \w
WordChars == Letters \cup Digits \cup {"_"}

IsNonSpace(c) == c \notin Whitespace
IsWord(c) == c \in WordChars

\* str.lower() on one character
LowerChar(c) ==
    IF c \in UpperCase
    THEN LowerSeq[CHOOSE i \in DOMAIN UpperSeq : UpperSeq[i] = c]
    ELSE c

-----------------------------------------------------------------------------
(* clean_tweet, step by step.                                              *)

\* text_series.astype(str): a missing value becomes the text "nan"
AsStr(x) == IF x = NaN THEN <<"n","a","n">> ELSE x

HasPrefixAt(s, i, lit) ==
    /\ i + Len(lit) - 1 <= Len(s)
    /\ \A k \in 1..Len(lit) : s[i + k - 1] = lit[k]

\* length of the longest run of non-whitespace characters starting at i (\S*)
RECURSIVE NonSpaceRun(_, _)
NonSpaceRun(s, i) ==
    IF i > Len(s) \/ ~IsNonSpace(s[i]) THEN 0 ELSE 1 + NonSpaceRun(s, i + 1)

\* length of the longest run of word characters starting at i (\w*)
RECURSIVE WordRun(_, _)
WordRun(s, i) ==
    IF i > Len(s) \/ ~IsWord(s[i]) THEN 0 ELSE 1 + WordRun(s, i + 1)

\* length of the match of  lit\S+  at i, 0 when it does not match
LitThenNonSpace(s, i, lit) ==
    IF HasPrefixAt(s, i, lit) /\ NonSpaceRun(s, i + Len(lit)) > 0
    THEN Len(lit) + NonSpaceRun(s, i + Len(lit))
    ELSE 0

\* the alternation is missing its www\S+ branch
UrlMatchLenNoWww(s, i) ==
    IF LitThenNonSpace(s, i, <<"h","t","t","p">>) > 0
    THEN LitThenNonSpace(s, i, <<"h","t","t","p">>)
    ELSE LitThenNonSpace(s, i, <<"h","t","t","p","s">>)

\* length of the match of  http\S+|www\S+|https\S+  at i (alternatives in order)
UrlMatchLen(s, i) ==
    IF LitThenNonSpace(s, i, <<"h","t","t","p">>) > 0
    THEN LitThenNonSpace(s, i, <<"h","t","t","p">>)
    ELSE IF LitThenNonSpace(s, i, <<"w","w","w">>) > 0
    THEN LitThenNonSpace(s, i, <<"w","w","w">>)
    ELSE LitThenNonSpace(s, i, <<"h","t","t","p","s">>)

\* text.str.replace(r"http\S+|www\S+|https\S+", '', regex=True)
RECURSIVE RemoveUrlsFrom(_, _)
RemoveUrlsFrom(s, i) ==
    IF i > Len(s) THEN <<>>
    ELSE IF UrlMatchLen(s, i) > 0 THEN RemoveUrlsFrom(s, i + UrlMatchLen(s, i))
    ELSE <<s[i]>> \o RemoveUrlsFrom(s, i + 1)

RemoveUrls(s) == RemoveUrlsFrom(s, 1)

\* length of the match of  \@\w+|\\#  at i: a mention, or a backslash followed by #
MentionMatchLen(s, i) ==
    IF s[i] = "@" /\ WordRun(s, i + 1) > 0 THEN 1 + WordRun(s, i + 1)
    ELSE IF HasPrefixAt(s, i, <<"\\", "#">>) THEN 2
    ELSE 0

\* text.str.replace(r'\@\w+|\\#', '', regex=True)
RECURSIVE RemoveMentionsFrom(_, _)
RemoveMentionsFrom(s, i) ==
    IF i > Len(s) THEN <<>>
    ELSE IF MentionMatchLen(s, i) > 0
    THEN RemoveMentionsFrom(s, i + MentionMatchLen(s, i))
    ELSE <<s[i]>> \o RemoveMentionsFrom(s, i + 1)

RemoveMentions(s) == RemoveMentionsFrom(s, 1)

\* the character class also keeps digits
KeptCharOrDigit(c) == c \in Letters \cup Whitespace \cup Digits

\* a character [^a-zA-Z\s] does not match
KeptChar(c) == c \in Letters \cup Whitespace

\* only the first match is replaced (count=1)
RemoveNonLettersFirstOnly(s) ==
    IF \A i \in DOMAIN s : KeptChar(s[i]) THEN s
    ELSE LET j == CHOOSE i \in DOMAIN s :
                      /\ ~KeptChar(s[i])
                      /\ \A k \in 1..(i - 1) : KeptChar(s[k])
         IN SubSeq(s, 1, j - 1) \o SubSeq(s, j + 1, Len(s))

\* text.str.replace(r"[^a-zA-Z\s]", '', regex=True)
RemoveNonLetters(s) == SelectSeq(s, KeptChar)

\* text.str.lower()
Lower(s) == [i \in DOMAIN s |-> LowerChar(s[i])]

RECURSIVE LStrip(_)
LStrip(s) ==
    IF s # <<>> /\ s[1] \in Whitespace THEN LStrip(Tail(s)) ELSE s

RECURSIVE RStrip(_)
RStrip(s) ==
    IF s # <<>> /\ s[Len(s)] \in Whitespace
    THEN RStrip(SubSeq(s, 1, Len(s) - 1))
    ELSE s

\* text.str.strip()
Strip(s) == RStrip(LStrip(s))

\* the five steps of clean_tweet on one element of the Series
CleanText(x) ==
    Strip(Lower(RemoveNonLetters(RemoveMentions(RemoveUrls(AsStr(x))))))

-----------------------------------------------------------------------------
(* Inputs of the cleaning specification: concatenations of at most         *)
(* MaxChunks chunks of the vocabulary below, or a missing value.           *)

MaxChunks == 3

Chunks ==
    { <<"h","t","t","p",":","/","/","x">>,
      <<"h","t","t","p","s",":","/","/","x">>,
      <<"w","w","w",".","x">>,
      <<"h","t","t","p">>,
      <<"w","w","w">>,
      <<"H","T","T","P">>,
      <<"x">>,
      <<"1">>,
      <<" ">>,
      <<"\n">>,
      <<"@">>,
      <<"#">>,
      <<"\\">> }

RECURSIVE Flatten(_)
Flatten(ss) == IF ss = <<>> THEN <<>> ELSE Head(ss) \o Flatten(Tail(ss))

ChunkSeqs == UNION {[1..n -> Chunks] : n \in 0..MaxChunks}

CleanInputs == {Flatten(cs) : cs \in ChunkSeqs} \cup {NaN}

-----------------------------------------------------------------------------
(* The values every specification gives the variables of the operations    *)
(* it does not run.                                                        *)

NoFile == [parsable |-> FALSE, cols |-> <<>>, nrows |-> 0]
NoFrame == [index |-> <<>>, cols |-> <<>>]
NoResult == [kind |-> "None", df |-> NoFrame]

CleanIdle == text_in = NaN /\ text_out = <<>>
ClassifyIdle == compound = 0 /\ label = "none"
PipelineIdle ==
    /\ uploaded_file = NoFile
    /\ result = NoResult
    /\ st_errors = <<>>
    /\ raised = "none"
    /\ calls = <<>>
    /\ scores = <<>>
AggIdle ==
    /\ agg_data = NoFrame
    /\ agg_column = "language"
    /\ agg_top_n = 0
    /\ agg_counts = <<>>
    /\ agg_shown = "none"

cleanVars == <<text_in, text_out>>
classifyVars == <<compound, label>>
pipelineVars == <<uploaded_file, result, st_errors, raised, calls, scores>>
aggVars == <<agg_data, agg_column, agg_top_n, agg_counts, agg_shown>>

-----------------------------------------------------------------------------
(* The cleaning specification: clean_tweet on a one-element Series.        *)

InitClean ==
    /\ pc = "idle"
    /\ text_in \in CleanInputs
    /\ text_out = <<>>
    /\ ClassifyIdle /\ PipelineIdle /\ AggIdle

CleanTweet ==
    /\ pc = "idle"
    /\ pc' = "done"
    /\ text_out' = CleanText(text_in)
    /\ UNCHANGED <<text_in, classifyVars, pipelineVars, aggVars>>

SpecClean == InitClean /\ [][CleanTweet]_vars

(* Predicates on texts used to state the cleaning claims.                  *)

\* lit occurs in s as a substring
Contains(s, lit) == \E i \in 1..Len(s) : HasPrefixAt(s, i, lit)

\* lit occurs in s immediately followed by a non-whitespace character
FollowedByNonSpace(s, lit) ==
    \E i \in 1..Len(s) :
        /\ HasPrefixAt(s, i, lit)
        /\ i + Len(lit) <= Len(s)
        /\ s[i + Len(lit)] \notin Whitespace

\* s holds http or www immediately followed by a non-whitespace character
UrlLike(s) ==
    \/ FollowedByNonSpace(s, <<"h","t","t","p">>)
    \/ FollowedByNonSpace(s, <<"w","w","w">>)

\* a token (starting the text or following whitespace) of s starts with lit
\* and goes on with at least one more non-whitespace character
TokenStartsWith(s, lit) ==
    \E i \in 1..Len(s) :
        /\ i = 1 \/ s[i - 1] \in Whitespace
        /\ HasPrefixAt(s, i, lit)
        /\ i + Len(lit) <= Len(s)
        /\ s[i + Len(lit)] \notin Whitespace

\* s contains a well-formed URL: a token starting with http://, https:// or www.
ContainsUrl(s) ==
    \/ TokenStartsWith(s, <<"h","t","t","p",":","/","/">>)
    \/ TokenStartsWith(s, <<"h","t","t","p","s",":","/","/">>)
    \/ TokenStartsWith(s, <<"w","w","w",".">>)

\* C4 as stated: every cleaned text is a fixed point of clean_tweet.
C4_Idempotent ==
    pc = "done" => CleanText(text_out) = text_out

\* C4 as amended: a cleaned text that holds no http or www immediately
\* followed by a non-whitespace character is a fixed point of clean_tweet.
C4_FixedPointUnlessUrlLike ==
    (pc = "done" /\ ~UrlLike(text_out)) => CleanText(text_out) = text_out

\* a text that cleaning changed, with a non-empty result that is a fixed point
C4_Witness ==
    /\ pc = "done"
    /\ text_out # <<>>
    /\ text_out # AsStr(text_in)
    /\ ~UrlLike(text_out)
    /\ CleanText(text_out) = text_out

\* C5 as stated: when the input contains a well-formed URL, the cleaned text
\* contains neither http nor www.
C5_NoHttpNoWww ==
    (pc = "done" /\ ContainsUrl(AsStr(text_in))) =>
        /\ ~Contains(text_out, <<"h","t","t","p">>)
        /\ ~Contains(text_out, <<"w","w","w">>)

\* C5 as amended: for every input, the text left by the URL removal step holds
\* no http or www immediately followed by a non-whitespace character, so every
\* well-formed URL token is removed whole.
C5_UrlStepRemovesUrls ==
    pc = "done" =>
        /\ ~UrlLike(RemoveUrls(AsStr(text_in)))
        /\ ~ContainsUrl(RemoveUrls(AsStr(text_in)))

\* an input with a well-formed URL and other text, the URL gone from the output
C5_Witness ==
    /\ pc = "done"
    /\ ContainsUrl(AsStr(text_in))
    /\ text_out = <<"x">>

\* C8: the cleaned text holds only lowercase ASCII letters and whitespace, and
\* an input without any letter is cleaned to the empty text.
C8_LowercaseLettersAndSpace ==
    pc = "done" =>
        /\ \A i \in DOMAIN text_out : text_out[i] \in LowerCase \cup Whitespace
        /\ (\A i \in DOMAIN AsStr(text_in) : AsStr(text_in)[i] \notin Letters)
               => text_out = <<>>

\* an input made of a URL and symbols only is cleaned to the empty text
C8_Witness ==
    /\ pc = "done"
    /\ ContainsUrl(AsStr(text_in))
    /\ Contains(AsStr(text_in), <<"#">>)
    /\ text_out = <<>>

-----------------------------------------------------------------------------
(* The labelling rule of apply_sentiment_analysis.                         *)

\* the compound score is within [-1, 1], here in units of 1/10000
CompoundMax == 10000
\* 0.05 and -0.05 in the same units
PositiveAbove == 500
NegativeBelow == -500

Labels == {"positive", "negative", "neutral"}

\* the comparison lets the boundary value through
sentiment_label_inclusive(x) ==
    IF x >= PositiveAbove THEN "positive"
    ELSE IF x <= NegativeBelow THEN "negative"
    ELSE "neutral"

\* lambda x: 'positive' if x > 0.05 else 'negative' if x < -0.05 else 'neutral'
sentiment_label(x) ==
    IF x > PositiveAbove THEN "positive"
    ELSE IF x < NegativeBelow THEN "negative"
    ELSE "neutral"

InitClassify ==
    /\ pc = "idle"
    /\ compound \in (-CompoundMax)..CompoundMax
    /\ label = "none"
    /\ CleanIdle /\ PipelineIdle /\ AggIdle

Classify ==
    /\ pc = "idle"
    /\ pc' = "done"
    /\ label' = sentiment_label(compound)
    /\ UNCHANGED <<compound, cleanVars, pipelineVars, aggVars>>

SpecClassify == InitClassify /\ [][Classify]_vars

\* C3: above 0.05 the label is positive, below -0.05 negative, anything else
\* (0.05 and -0.05 included) neutral, and the label is one of the three.
C3_StrictThresholds ==
    pc = "done" =>
        /\ label \in Labels
        /\ (compound > 500 => label = "positive")
        /\ (compound < -500 => label = "negative")
        /\ ((compound >= -500 /\ compound <= 500) => label = "neutral")

\* the boundary value 0.05 has been labelled neutral
C3_Witness ==
    pc = "done" /\ compound = 500 /\ label = "neutral"

-----------------------------------------------------------------------------
(* DataFrames: an index (row labels) and an ordered list of named columns. *)
(* Column names may repeat, as they may in pandas.                         *)

ColumnNames(df) == {df.cols[k].name : k \in DOMAIN df.cols}

\* name in df.columns
HasColumn(df, name) == name \in ColumnNames(df)

\* df[name] for a name that occurs once
Column(df, name) ==
    df.cols[CHOOSE k \in DOMAIN df.cols : df.cols[k].name = name].vals

\* df[name] = vals: replaces the column of that name, or appends a new one
SetColumn(df, name, vals) ==
    IF HasColumn(df, name)
    THEN [df EXCEPT !.cols =
             [k \in DOMAIN df.cols |->
                 IF df.cols[k].name = name
                 THEN [name |-> name, vals |-> vals]
                 ELSE df.cols[k]]]
    ELSE [df EXCEPT !.cols = Append(df.cols, [name |-> name, vals |-> vals])]

\* df.rename(columns={old: new})
RenameColumn(df, old, new) ==
    [df EXCEPT !.cols =
        [k \in DOMAIN df.cols |->
            IF df.cols[k].name = old
            THEN [name |-> new, vals |-> df.cols[k].vals]
            ELSE df.cols[k]]]

\* RangeIndex(n): the labels 0 .. n-1
RangeIndex(n) == [i \in 1..n |-> i - 1]

\* the cell of a column at a row label, NaN where the column has no such label
CellAt(index, vals, lbl) ==
    IF \E i \in DOMAIN index : index[i] = lbl
    THEN vals[CHOOSE i \in DOMAIN index : index[i] = lbl]
    ELSE NaN

Reindex(df, index) ==
    [k \in DOMAIN df.cols |->
        [name |-> df.cols[k].name,
         vals |-> [i \in DOMAIN index |-> CellAt(df.index, df.cols[k].vals, index[i])]]]

\* pd.concat([a, b], axis=1): the columns side by side, rows matched by label
concat(a, b) ==
    LET index == a.index \o
                 SelectSeq(b.index, LAMBDA lbl : \A i \in DOMAIN a.index : a.index[i] # lbl)
    IN [index |-> index, cols |-> Reindex(a, index) \o Reindex(b, index)]

-----------------------------------------------------------------------------
(* The uploaded CSV files.                                                 *)

MaxRows == 2

Unknown == <<"u","n","k","n","o","w","n">>
En == <<"e","n">>
Es == <<"e","s">>

\* "I love sunny days!! http://x.co @joe"
LoveTweet ==
    <<"I"," ","l","o","v","e"," ","s","u","n","n","y"," ","d","a","y","s","!","!",
      " ","h","t","t","p",":","/","/","x",".","c","o"," ","@","j","o","e">>
\* "I hate this #traffic"
HateTweet ==
    <<"I"," ","h","a","t","e"," ","t","h","i","s"," ","#","t","r","a","f","f","i","c">>

ContentCells == {LoveTweet, HateTweet, <<"!","!">>, <<>>}
LangCells == {En, <<>>}
LanguageCells == {Es, <<>>}

CsvRows == [content : ContentCells, lang : LangCells, language : LanguageCells]

\* a file without any column is not parsable (read_csv raises EmptyDataError)
Headers == { <<"content">>, <<"lang">>, <<"language">>,
             <<"content", "lang">>, <<"content", "language">>,
             <<"lang", "language">>, <<"content", "lang", "language">> }

\* the file with header h whose records are the rows rs, cut to the header's fields
CsvFile(h, rs) ==
    [parsable |-> TRUE,
     nrows |-> Len(rs),
     cols |-> [k \in DOMAIN h |->
                 [name |-> h[k], vals |-> [i \in DOMAIN rs |-> rs[i][h[k]]]]]]

Files ==
    {[parsable |-> FALSE, cols |-> <<>>, nrows |-> 0]} \cup
    {CsvFile(h, rs) : h \in Headers,
                      rs \in UNION {[1..n -> CsvRows] : n \in 0..MaxRows}}

\* fields read_csv takes for a missing value (its default na_values, in part)
NaTokens == {<<>>, <<"N","A">>, <<"n","u","l","l">>, <<"N","a","N">>, <<"n","a","n">>}

\* pd.read_csv of a parsable file: default RangeIndex, missing fields become NaN
read_csv(file) ==
    [index |-> RangeIndex(file.nrows),
     cols |-> [k \in DOMAIN file.cols |->
                 [name |-> file.cols[k].name,
                  vals |-> [i \in DOMAIN file.cols[k].vals |->
                               IF file.cols[k].vals[i] \in NaTokens
                               THEN NaN
                               ELSE file.cols[k].vals[i]]]]]

\* CleanText of every cell a parsed file can hold, computed once
CleanedCell ==
    [x \in (ContentCells \ NaTokens) \cup {NaN} |-> CleanText(x)]

\* clean_tweet(text_series): every element cleaned, the Series' order kept
clean_tweet(text_series) ==
    [i \in DOMAIN text_series |-> CleanedCell[text_series[i]]]

-----------------------------------------------------------------------------
(* apply_sentiment_analysis.                                               *)

\* analyzer.polarity_scores(text): the library's score dictionary.  neg, neu and
\* pos are in thousandths, compound in units of 1/10000.  A text without any
\* word scores zero everywhere; for any other text the scorer is an oracle over
\* representative outcomes (a positive, a negative and a neutral one), the same
\* text always scoring the same.
ZeroScores == [neg |-> 0, neu |-> 0, pos |-> 0, compound |-> 0]
PolarityOutcomes ==
    { [neg |-> 0, neu |-> 323, pos |-> 677, compound |-> 6369],
      [neg |-> 649, neu |-> 351, pos |-> 0, compound |-> -5719],
      [neg |-> 0, neu |-> 1000, pos |-> 0, compound |-> 0] }

Analyzers(texts) ==
    {f \in [texts -> PolarityOutcomes \cup {ZeroScores}] :
        \A t \in texts : (f[t] = ZeroScores) <=> (t = <<>>)}

\* pd.DataFrame(scores) with the columns renamed sent_<key>: a list of n > 0
\* dictionaries gives the four columns, an empty list gives no column at all
ScoresFrame(sc) ==
    [index |-> RangeIndex(Len(sc)),
     cols |-> IF sc = <<>> THEN <<>>
              ELSE << [name |-> "sent_neg", vals |-> [i \in DOMAIN sc |-> sc[i].neg]],
                      [name |-> "sent_neu", vals |-> [i \in DOMAIN sc |-> sc[i].neu]],
                      [name |-> "sent_pos", vals |-> [i \in DOMAIN sc |-> sc[i].pos]],
                      [name |-> "sent_compound",
                       vals |-> [i \in DOMAIN sc |-> sc[i].compound]] >>]

\* df['sent_compound'].apply(lambda ...)
LabelColumn(df) ==
    [i \in DOMAIN df.index |-> sentiment_label(Column(df, "sent_compound")[i])]

\* lines 109-112: rename lang to language, else set language to 'unknown'
ResolveLanguage(df) ==
    IF HasColumn(df, "lang")
    THEN RenameColumn(df, "lang", "language")
    ELSE SetColumn(df, "language", [i \in DOMAIN df.index |-> Unknown])

-----------------------------------------------------------------------------
(* load_and_process_data.                                                  *)

\* st.error(...) and return None
Report(message, stages, sc) ==
    /\ st_errors' = <<message>>
    /\ result' = [kind |-> "None", df |-> NoFrame]
    /\ calls' = stages
    /\ scores' = sc

\* the check of line 101 is not made
ContentColumnNeverMissing(df) == FALSE

\* 'content' not in df.columns
ContentColumnMissing(df) == ~HasColumn(df, "content")

InitPipeline ==
    /\ pc = "idle"
    /\ uploaded_file \in Files
    /\ result = NoResult
    /\ st_errors = <<>>
    /\ raised = "none"
    /\ calls = <<>>
    /\ scores = <<>>
    /\ CleanIdle /\ ClassifyIdle /\ AggIdle

LoadAndProcess ==
    /\ pc = "idle"
    /\ pc' = "done"
    \* every exception is caught by the except clause of line 115
    /\ raised' = "none"
    /\ IF ~uploaded_file.parsable
       THEN Report("Error processing dataset", <<>>, <<>>)
       ELSE LET df == read_csv(uploaded_file) IN
            IF ContentColumnMissing(df)
            THEN Report("must contain a 'content' column", <<>>, <<>>)
            ELSE IF ~HasColumn(df, "content")
            \* df['content'] raises KeyError, caught at line 115
            THEN Report("Error processing dataset", <<>>, <<>>)
            ELSE
              LET cleaned == clean_tweet(Column(df, "content"))
                  df1 == SetColumn(df, "cleaned_content", cleaned)
              IN \E analyzer \in Analyzers(Range(cleaned)) :
                   LET sc == [i \in DOMAIN cleaned |-> analyzer[cleaned[i]]]
                       df2 == concat(df1, ScoresFrame(sc))
                   IN IF ~HasColumn(df2, "sent_compound")
                      \* df['sent_compound'] raises KeyError, caught at line 115
                      THEN Report("Error processing dataset",
                                  <<"clean_tweet", "apply_sentiment_analysis">>, sc)
                      ELSE /\ st_errors' = <<>>
                           /\ calls' = <<"clean_tweet", "apply_sentiment_analysis">>
                           /\ scores' = sc
                           /\ result' =
                                [kind |-> "DataFrame",
                                 df |-> ResolveLanguage(
                                          SetColumn(df2, "sentiment_label",
                                                    LabelColumn(df2)))]
    /\ UNCHANGED <<uploaded_file, cleanVars, classifyVars, aggVars>>

Spec == InitPipeline /\ [][LoadAndProcess]_vars

(* Predicates used to state the pipeline claims.                           *)

Parsed == read_csv(uploaded_file)

\* the cells of row i in the columns of df called name
CellsOf(df, name, i) ==
    {df.cols[k].vals[i] : k \in {j \in DOMAIN df.cols : df.cols[j].name = name}}

\* the language value the input provides for row i, NaN when it provides none
ProvidedLanguage(i) ==
    IF HasColumn(Parsed, "lang") /\ Column(Parsed, "lang")[i] # NaN
    THEN Column(Parsed, "lang")[i]
    ELSE IF HasColumn(Parsed, "language") /\ Column(Parsed, "language")[i] # NaN
    THEN Column(Parsed, "language")[i]
    ELSE NaN

\* C1 as stated: without a content column the function raises SchemaError to
\* its caller, before any per-row work and without producing a record set.
C1_SchemaErrorRaised ==
    (pc = "done" /\ uploaded_file.parsable /\ ~HasColumn(Parsed, "content")) =>
        /\ raised = "SchemaError"
        /\ calls = <<>>
        /\ scores = <<>>
        /\ result.kind = "None"

\* C1 as amended: without a content column the function reports the missing
\* column through st.error and returns None, no exception reaching the caller;
\* no record is cleaned, scored or labelled and no record set is produced.
C1_MissingContentReported ==
    (pc = "done" /\ uploaded_file.parsable /\ ~HasColumn(Parsed, "content")) =>
        /\ raised = "none"
        /\ st_errors = <<"must contain a 'content' column">>
        /\ calls = <<>>
        /\ scores = <<>>
        /\ result.kind = "None"

\* a file with records and a lang column but no content column has been refused
C1_Witness ==
    /\ pc = "done"
    /\ uploaded_file.parsable
    /\ uploaded_file.nrows > 0
    /\ HasColumn(Parsed, "lang")
    /\ ~HasColumn(Parsed, "content")
    /\ result.kind = "None"
    /\ st_errors # <<>>

\* C2: in the processed output every record has one language value, the one
\* the input provides for it, or "unknown" when the input provides none.
C2_LanguageResolved ==
    (pc = "done" /\ result.kind = "DataFrame") =>
        \A i \in DOMAIN result.df.index :
            CellsOf(result.df, "language", i) =
                {IF ProvidedLanguage(i) = NaN THEN Unknown ELSE ProvidedLanguage(i)}

\* C9: a record set with a content column is processed into as many records,
\* in the same order, each holding the cleaned content, the four scores and
\* the label derived from its own content.
C9_RecordsPreserved ==
    (pc = "done" /\ uploaded_file.parsable /\ HasColumn(Parsed, "content")) =>
        /\ result.kind = "DataFrame"
        /\ result.df.index = RangeIndex(uploaded_file.nrows)
        /\ Len(scores) = uploaded_file.nrows
        /\ \A i \in DOMAIN result.df.index :
            /\ CellsOf(result.df, "content", i) = {Column(Parsed, "content")[i]}
            /\ CellsOf(result.df, "cleaned_content", i) =
                   {CleanText(Column(Parsed, "content")[i])}
            /\ CellsOf(result.df, "sent_neg", i) = {scores[i].neg}
            /\ CellsOf(result.df, "sent_neu", i) = {scores[i].neu}
            /\ CellsOf(result.df, "sent_pos", i) = {scores[i].pos}
            /\ CellsOf(result.df, "sent_compound", i) = {scores[i].compound}
            /\ CellsOf(result.df, "sentiment_label", i) =
                   {sentiment_label(scores[i].compound)}

\* C10: the three contents of the end-to-end scenario are cleaned to
\* "i love sunny days", "i hate this" and "".
C10_ScenarioCleaned ==
    (pc = "done" /\ result.kind = "DataFrame") =>
        \A i \in DOMAIN result.df.index :
            LET cell == Column(Parsed, "content")[i]
                cleaned == Column(result.df, "cleaned_content")[i]
            IN /\ cell = LoveTweet =>
                    cleaned = <<"i"," ","l","o","v","e"," ","s","u","n","n","y",
                                " ","d","a","y","s">>
               /\ cell = HateTweet =>
                    cleaned = <<"i"," ","h","a","t","e"," ","t","h","i","s">>
               /\ cell = <<>> => cleaned = <<>>

-----------------------------------------------------------------------------
(* visualize_distribution: counts = data[column].value_counts().head(top_n) *)

MaxAggRows == 4
MaxTopN == 2
\* the default of the top_n parameter
DefaultTopN == 10

AggCells == {En, Es, Unknown, NaN}
AggColumns == {"language", "sentiment_label"}

\* frames with a language column, and frames without any column
AggFrames ==
    {[index |-> RangeIndex(Len(vals)),
      cols |-> <<[name |-> "language", vals |-> vals]>>] :
        vals \in UNION {[1..n -> AggCells] : n \in 0..MaxAggRows}}
    \cup {[index |-> RangeIndex(n), cols |-> <<>>] : n \in 0..MaxAggRows}

\* the number of cells of vals equal to v
Count(vals, v) == Cardinality({i \in DOMAIN vals : vals[i] = v})

\* NaN is counted as a value too (dropna=False)
CountedValuesWithNaN(vals) == Range(vals)

\* the values value_counts counts: the distinct non-missing ones
CountedValues(vals) == Range(vals) \ {NaN}

\* the (value, count) pairs in order of increasing count
ValueCountsAscending(vals) ==
    {[k \in DOMAIN order |-> <<order[k], Count(vals, order[k])>>] :
        order \in {o \in [1..Cardinality(CountedValues(vals)) -> CountedValues(vals)] :
                     /\ \A j, k \in DOMAIN o : j # k => o[j] # o[k]
                     /\ \A j, k \in DOMAIN o :
                            j < k => Count(vals, o[j]) <= Count(vals, o[k])}}

\* Series.value_counts(): the (value, count) pairs of the counted values, most
\* frequent first.  The library documents no order among equal counts, so
\* every order of them is a possible result.
value_counts(vals) ==
    {[k \in DOMAIN order |-> <<order[k], Count(vals, order[k])>>] :
        order \in {o \in [1..Cardinality(CountedValues(vals)) -> CountedValues(vals)] :
                     /\ \A j, k \in DOMAIN o : j # k => o[j] # o[k]
                     /\ \A j, k \in DOMAIN o :
                            j < k => Count(vals, o[j]) >= Count(vals, o[k])}}

\* .head(n) for n >= 0: the first n entries
head(s, n) == SubSeq(s, 1, IF n < Len(s) THEN n ELSE Len(s))

InitAgg ==
    /\ pc = "idle"
    /\ agg_data \in AggFrames
    /\ agg_column \in AggColumns
    /\ agg_top_n \in 0..MaxTopN \cup {DefaultTopN}
    /\ agg_counts = <<>>
    /\ agg_shown = "none"
    /\ CleanIdle /\ ClassifyIdle /\ PipelineIdle

VisualizeDistribution ==
    /\ pc = "idle"
    /\ pc' = "done"
    /\ IF ~HasColumn(agg_data, agg_column)
       \* data[column] raises KeyError: no figure is returned
       THEN agg_counts' = <<>> /\ agg_shown' = "KeyError"
       ELSE \E counted \in value_counts(Column(agg_data, agg_column)),
               is_pie \in BOOLEAN :
              LET counts == head(counted, agg_top_n) IN
              /\ agg_counts' = counts
              /\ agg_shown' = IF counts = <<>> THEN "No data to display"
                              ELSE IF is_pie THEN "pie" ELSE "bar"
    /\ UNCHANGED <<agg_data, agg_column, agg_top_n,
                   cleanVars, classifyVars, pipelineVars>>

SpecAgg == InitAgg /\ [][VisualizeDistribution]_vars

(* Predicates used to state the aggregation claims.                        *)

AggValues == Column(agg_data, agg_column)

\* the distinct non-missing values of vals in the order they first occur
FirstSeen(vals) ==
    SelectSeq([i \in DOMAIN vals |->
                  IF vals[i] # NaN /\ \A j \in 1..(i - 1) : vals[j] # vals[i]
                  THEN vals[i] ELSE NaN],
              LAMBDA v : v # NaN)

\* pairs sorted by count, most frequent first, equal counts in their given order
RECURSIVE InsertByCount(_, _)
InsertByCount(sorted, pair) ==
    IF sorted = <<>> THEN <<pair>>
    ELSE IF Head(sorted)[2] >= pair[2]
    THEN <<Head(sorted)>> \o InsertByCount(Tail(sorted), pair)
    ELSE <<pair>> \o sorted

RECURSIVE StableByCount(_)
StableByCount(pairs) ==
    IF pairs = <<>> THEN <<>>
    ELSE InsertByCount(StableByCount(SubSeq(pairs, 1, Len(pairs) - 1)),
                       pairs[Len(pairs)])

Min(a, b) == IF a < b THEN a ELSE b

\* C6 as stated: the result is the (value, count) pairs of the distinct
\* non-missing values, most frequent first, equal counts in first-encountered
\* order, cut to the first top_n.
C6_StableTopN ==
    (pc = "done" /\ agg_shown # "KeyError") =>
        agg_counts =
            head(StableByCount([k \in DOMAIN FirstSeen(AggValues) |->
                                   <<FirstSeen(AggValues)[k],
                                     Count(AggValues, FirstSeen(AggValues)[k])>>]),
                 agg_top_n)

\* C6 as amended: the result holds min(top_n, number of distinct non-missing
\* values) pairs of distinct non-missing values with their counts, most
\* frequent first, and no value left out is more frequent than one kept; the
\* order among equal counts is not fixed.
C6_DescendingTopN ==
    (pc = "done" /\ agg_shown # "KeyError") =>
        /\ Len(agg_counts) = Min(agg_top_n, Cardinality(Range(AggValues) \ {NaN}))
        /\ \A k \in DOMAIN agg_counts :
            /\ agg_counts[k][1] \in Range(AggValues) \ {NaN}
            /\ agg_counts[k][2] = Count(AggValues, agg_counts[k][1])
        /\ \A j, k \in DOMAIN agg_counts :
            /\ j # k => agg_counts[j][1] # agg_counts[k][1]
            /\ j < k => agg_counts[j][2] >= agg_counts[k][2]
        /\ \A v \in Range(AggValues) \ {NaN} :
            (\A k \in DOMAIN agg_counts : agg_counts[k][1] # v) =>
                \A k \in DOMAIN agg_counts : agg_counts[k][2] >= Count(AggValues, v)

\* language values [en, en, es, unknown] with top_n = 2 counted as [(en,2), (es,1)]
C6_Witness ==
    /\ pc = "done"
    /\ HasColumn(agg_data, agg_column)
    /\ AggValues = <<En, En, Es, Unknown>>
    /\ agg_top_n = 2
    /\ agg_counts = << <<En, 2>>, <<Es, 1>> >>

\* C7 as stated: with no record, or with the field absent from the records
\* (no such column, or no record with a value), the result is empty and the
\* placeholder is shown; no error is raised.
C7_NeverFailsOnEmpty ==
    (/\ pc = "done"
     /\ \/ agg_data.index = <<>>
        \/ ~HasColumn(agg_data, agg_column)
        \/ \A i \in DOMAIN AggValues : AggValues[i] = NaN) =>
        /\ agg_counts = <<>>
        /\ agg_shown = "No data to display"

\* C7 as amended: when the column exists and no record has a value in it (no
\* record at all, or only missing values), the result is empty and the
\* placeholder is shown; a column that does not exist raises KeyError.
C7_EmptyWhenNoValues ==
    pc = "done" =>
        /\ (/\ HasColumn(agg_data, agg_column)
            /\ \A i \in DOMAIN AggValues : AggValues[i] = NaN) =>
               (agg_counts = <<>> /\ agg_shown = "No data to display")
        /\ (~HasColumn(agg_data, agg_column) => agg_shown = "KeyError")

\* records whose language is missing throughout are shown as the placeholder
C7_Witness ==
    /\ pc = "done"
    /\ HasColumn(agg_data, agg_column)
    /\ agg_data.index # <<>>
    /\ agg_top_n > 0
    /\ \A i \in DOMAIN AggValues : AggValues[i] = NaN
    /\ agg_shown = "No data to display"

====
